---------------------------- MODULE Spec2Model ----------------------------
(***************************************************************************)
(* Model of mp3merge-audiobooks.py: one batch run that loads the           *)
(* processed-books state, walks a directory tree top-down, merges the      *)
(* parts of every unprocessed book with an external tool, removes the      *)
(* merged parts, saves the state and triggers a library scan.              *)
(*                                                                         *)
(* Strings are sequences of tokens (a directory name is the sequence of    *)
(* its characters, a file name ends with its extension token), so that     *)
(* lower(), startswith(), endswith() and the f-string that builds the      *)
(* output name are computed, not assumed.                                  *)
(***************************************************************************)
EXTENDS Naturals, Sequences, FiniteSets, TLC

\* Bounds of the model: directories in the scanned tree, track files that a
\* directory holds before the run.  At most one directory of the tree holds,
\* beside its tracks, a stale filelist.txt or a file that already has the
\* name of the directory's merged output.
MaxDirs == 3
MaxTracks == 2

VARIABLES
  parent,         \* directory -> its parent directory (0 for base_path)
  name,           \* directory -> os.path.basename of the directory
  fs,             \* directory -> listing of the files directly in it
  stateFile,      \* content of processed_books.json, or NoFile
  processed,      \* keys of the in-memory processed_books dict
  pc,             \* position of the main program
  stack,          \* directories os.walk has still to yield, next one first
  job,            \* the merge job in progress (merge_mp3_files arguments)
  todo,           \* remove_original_files: the files still to remove
  run,            \* which run of the program this is (1, or 2 after a restart)
  visits,         \* history: directories yielded by os.walk in this run
  attempts,       \* history: every call of merge_mp3_files, with its outcome
  rmFailed,       \* history: files whose os.remove raised
  fsStart,        \* history: fs when this run started
  stateFileStart, \* history: stateFile when this run started
  loads,          \* history: calls of load_processed_books in this run
  saves,          \* history: calls of save_processed_books in this run
  notifies        \* history: outcomes of scan_audiobookshelf_library in this run

vars == <<parent, name, fs, stateFile, processed, pc, stack, job, todo, run,
          visits, attempts, rmFailed, fsStart, stateFileStart, loads, saves,
          notifies>>

----------------------------------------------------------------------------
\* Strings

LowerChar(c) ==
  CASE c = "A" -> "a"
    [] c = "C" -> "c"
    [] c = "D" -> "d"
    [] OTHER -> c

\* str.lower()
Lower(s) == [i \in 1..Len(s) |-> LowerChar(s[i])]

\* str.startswith(prefix)
StartsWith(s, prefix) ==
  /\ Len(s) >= Len(prefix)
  /\ SubSeq(s, 1, Len(prefix)) = prefix

\* str.endswith('.mp3'): the extension is the last token of a file name
EndsWithMp3(f) == Len(f) >= 1 /\ f[Len(f)] = ".mp3"

\* d.lower().startswith('cd')
IsCdFolder(n) == StartsWith(Lower(n), <<"c", "d">>)

\* "filelist.txt"
ManifestName == <<"filelist", ".txt">>

\* f"{book_title}-merged.mp3"
OutputName(title) == title \o <<"-merged", ".mp3">>

\* os.path.join(root, file)
Path(d, f) == [dir |-> d, file |-> f]

\* processed_books.json: whether it exists, and the keys of the object in it
StateFileOf(keys) == [exists |-> TRUE, keys |-> keys]
NoFile == [exists |-> FALSE, keys |-> {}]
NoJob == [dir |-> 0, title |-> <<>>, inputs |-> <<>>]

----------------------------------------------------------------------------
\* The scanned tree

RootName == <<"A">>
Names == {<<"A">>, <<"c", "x">>, <<"c", "d", "1">>, <<"C", "D">>}
Extras == {"none", "output", "manifest"}
LoadableStates == {NoFile, StateFileOf({<<"A">>})}

TrackName(i) == <<"t", ToString(i), ".mp3">>
Tracks(k) == [i \in 1..k |-> TrackName(i)]

InitialListing(n, extra, k) ==
  CASE extra = "output" -> <<OutputName(n)>> \o Tracks(k)
    [] extra = "manifest" -> <<ManifestName>> \o Tracks(k)
    [] OTHER -> Tracks(k)

Dirs == DOMAIN parent
Root == 1

Parents(n) ==
  {p \in [1..n -> 0..n] : p[1] = 0 /\ \A d \in 2..n : p[d] >= 1 /\ p[d] < d}

Namings(n, p) ==
  {f \in [1..n -> Names] :
     /\ f[1] = RootName
     /\ \A c, d \in 1..n : (c # d /\ p[c] = p[d]) => f[c] # f[d]}

RECURSIVE Ascending(_)
Ascending(S) ==
  IF S = {} THEN <<>>
  ELSE LET m == CHOOSE x \in S : \A y \in S : x <= y
       IN <<m>> \o Ascending(S \ {m})

\* the dirs list os.walk yields for d, in listing order
Children(d) == Ascending({c \in Dirs : parent[c] = d})

Range(s) == {s[i] : i \in 1..Len(s)}

RECURSIVE Flatten(_)
Flatten(ss) == IF ss = <<>> THEN <<>> ELSE Head(ss) \o Flatten(Tail(ss))

\* [os.path.join(root, file) for file in files if file.endswith('.mp3')]
Mp3Files(d) ==
  LET mp3 == SelectSeq(fs[d], EndsWithMp3)
  IN [i \in 1..Len(mp3) |-> Path(d, mp3[i])]

\* for root_cd, dirs_cd, files_cd in os.walk(cd_folder): mp3_files.extend(...)
RECURSIVE WalkMp3(_)
WalkMp3(d) ==
  LET kids == Children(d)
  IN Mp3Files(d) \o Flatten([i \in 1..Len(kids) |-> WalkMp3(kids[i])])

\* cd_folders = [os.path.join(root, d) for d in dirs if d.lower().startswith('cd')]
CdFolders(d) ==
  LET IsCd(c) == IsCdFolder(name[c]) IN SelectSeq(Children(d), IsCd)

\* mp3_files collected for a directory with CD folders: the files of the CD
\* folders only, each folder walked top-down
CdCollectWithOwnFiles(d) ==
  LET cds == CdFolders(d)
  IN Mp3Files(d) \o Flatten([i \in 1..Len(cds) |-> WalkMp3(cds[i])])
CdCollect(d) ==
  LET cds == CdFolders(d)
  IN Flatten([i \in 1..Len(cds) |-> WalkMp3(cds[i])])

\* if len(mp3_files) > 1
FlatQualifiesSingle(mp3) == Len(mp3) >= 1
FlatQualifies(mp3) == Len(mp3) > 1

\* `continue` leaves dirs as os.walk listed it: the walk descends into all
SkipDescentPruned(d) == <<>>
SkipDescent(d) == Children(d)

\* dirs[:] = []
CdDescentSiblings(d) ==
  LET NotCd(c) == ~IsCdFolder(name[c]) IN SelectSeq(Children(d), NotCd)
CdDescent(d) == <<>>

\* the for loop over os.walk is exhausted
ScanFinished == stack = <<>>

\* processed_books[book_title] = True changes the dict in memory only: the
\* state file stays as it is
SavePerBook(file, keys) == StateFileOf(keys)
StateFileAfterMark(file, keys) == file

----------------------------------------------------------------------------
\* The file system

Has(listing, f) == f \in Range(listing)

\* open(path, 'w') / the tool writing its output: creates or overwrites
WriteFile(listing, f) == IF Has(listing, f) THEN listing ELSE Append(listing, f)

\* os.remove(path)
RemoveFile(listing, f) == LET Keep(g) == g # f IN SelectSeq(listing, Keep)

\* finally: os.remove(filelist_path)
ManifestCleanupOnSuccess(listing, exit) ==
  IF exit = "zero" THEN RemoveFile(listing, ManifestName) ELSE listing
ManifestCleanup(listing, exit) == RemoveFile(listing, ManifestName)

HttpOutcomes == {"200", "non200", "exception"}

----------------------------------------------------------------------------
\* The program

Init ==
  /\ \E n \in 1..MaxDirs :
       \E p \in Parents(n) :
         \E f \in Namings(n, p) :
           \E x \in 0..n, e \in Extras, k \in [1..n -> 0..MaxTracks] :
             /\ parent = p
             /\ name = f
             /\ fs = [d \in 1..n |->
                        InitialListing(f[d], IF d = x THEN e ELSE "none", k[d])]
  /\ stateFile \in LoadableStates
  /\ processed = {}
  /\ pc = "load"
  /\ stack = <<>>
  /\ job = NoJob
  /\ todo = <<>>
  /\ run = 1
  /\ visits = <<>>
  /\ attempts = <<>>
  /\ rmFailed = {}
  /\ fsStart = fs
  /\ stateFileStart = stateFile
  /\ loads = 0
  /\ saves = 0
  /\ notifies = <<>>

tree == <<parent, name>>
hist == <<rmFailed, fsStart, stateFileStart, loads, saves, notifies>>

\* load_processed_books, then scan_for_mp3_books starts walking base_path
LoadState ==
  /\ pc = "load"
  /\ processed' = IF stateFile.exists THEN stateFile.keys ELSE {}
  /\ loads' = loads + 1
  /\ stack' = <<Root>>
  /\ pc' = "scan"
  /\ UNCHANGED <<tree, fs, stateFile, job, todo, run, visits, attempts,
                 rmFailed, fsStart, stateFileStart, saves, notifies>>

\* merge_mp3_files up to the call of the tool: generate_filelist_file
StartMerge(d, mp3) ==
  /\ job' = [dir |-> d, title |-> name[d], inputs |-> mp3]
  /\ fs' = [fs EXCEPT ![d] = WriteFile(@, ManifestName)]
  /\ attempts' = Append(attempts, [run |-> run, dir |-> d, title |-> name[d],
                                   inputs |-> mp3, exit |-> "running",
                                   result |-> "none"])
  /\ pc' = "merging"

Noted(d) == Append(visits, [dir |-> d, wasKey |-> name[d] \in processed])

\* loop body, lines 45-49: the directory is already processed
VisitSkip ==
  /\ pc = "scan" /\ ~ScanFinished
  /\ LET d == Head(stack) IN
       /\ name[d] \in processed
       /\ visits' = Noted(d)
       /\ stack' = SkipDescent(d) \o Tail(stack)
  /\ UNCHANGED <<tree, fs, stateFile, processed, pc, job, todo, run, attempts,
                 hist>>

\* loop body, lines 52-67: the directory has CD folders
VisitCd ==
  /\ pc = "scan" /\ ~ScanFinished
  /\ LET d == Head(stack)
         mp3 == CdCollect(d)
     IN
       /\ name[d] \notin processed
       /\ CdFolders(d) # <<>>
       /\ visits' = Noted(d)
       /\ stack' = CdDescent(d) \o Tail(stack)
       /\ IF mp3 # <<>>
            THEN StartMerge(d, mp3)
            ELSE UNCHANGED <<fs, pc, job, attempts>>
  /\ UNCHANGED <<tree, stateFile, processed, todo, run, hist>>

\* loop body, lines 68-78: no CD folders
VisitFlat ==
  /\ pc = "scan" /\ ~ScanFinished
  /\ LET d == Head(stack)
         mp3 == Mp3Files(d)
     IN
       /\ name[d] \notin processed
       /\ CdFolders(d) = <<>>
       /\ visits' = Noted(d)
       /\ stack' = Children(d) \o Tail(stack)
       /\ IF FlatQualifies(mp3)
            THEN StartMerge(d, mp3)
            ELSE UNCHANGED <<fs, pc, job, attempts>>
  /\ UNCHANGED <<tree, stateFile, processed, todo, run, hist>>

Closed(exit, result) ==
  [attempts EXCEPT ![Len(attempts)] =
     [@ EXCEPT !.exit = exit, !.result = result]]

\* subprocess.run(..., check=True) returns: exit status 0
ToolSucceeds ==
  /\ pc = "merging"
  /\ fs' = [fs EXCEPT ![job.dir] =
              ManifestCleanup(WriteFile(@, OutputName(job.title)), "zero")]
  /\ attempts' = Closed("zero", "true")
  /\ todo' = job.inputs
  /\ pc' = "removing"
  /\ UNCHANGED <<tree, stateFile, processed, stack, job, run, visits, hist>>

\* subprocess.CalledProcessError: non-zero exit status
ToolFails ==
  /\ pc = "merging"
  /\ fs' = [fs EXCEPT ![job.dir] = ManifestCleanup(@, "nonzero")]
  /\ attempts' = Closed("nonzero", "false")
  /\ job' = NoJob
  /\ pc' = "scan"
  /\ UNCHANGED <<tree, stateFile, processed, stack, todo, run, visits, hist>>

\* subprocess.run raises anything else (the tool cannot be started): only the
\* finally clause runs and the exception leaves the program
ToolCannotRun ==
  /\ pc = "merging"
  /\ fs' = [fs EXCEPT ![job.dir] = ManifestCleanup(@, "oserror")]
  /\ attempts' = Closed("oserror", "none")
  /\ job' = NoJob
  /\ pc' = "aborted"
  /\ UNCHANGED <<tree, stateFile, processed, stack, todo, run, visits, hist>>

\* after remove_original_files: processed_books[book_title] = True
AfterRemoval(rest) ==
  IF rest = <<>>
    THEN /\ processed' = processed \cup {job.title}
         /\ stateFile' = StateFileAfterMark(stateFile, processed')
         /\ job' = NoJob
         /\ pc' = "scan"
    ELSE UNCHANGED <<processed, stateFile, job, pc>>

\* remove_original_files, one file: os.remove succeeds
RemoveOriginal ==
  /\ pc = "removing"
  /\ LET p == Head(todo) IN
       /\ Has(fs[p.dir], p.file)
       /\ fs' = [fs EXCEPT ![p.dir] = RemoveFile(@, p.file)]
  /\ todo' = Tail(todo)
  /\ AfterRemoval(Tail(todo))
  /\ UNCHANGED <<tree, stack, run, visits, attempts, hist>>

\* remove_original_files, one file: os.remove raises, which is logged
RemoveRaises ==
  /\ pc = "removing"
  /\ rmFailed' = rmFailed \cup {Head(todo)}
  /\ todo' = Tail(todo)
  /\ AfterRemoval(Tail(todo))
  /\ UNCHANGED <<tree, fs, stack, run, visits, attempts, fsStart,
                 stateFileStart, loads, saves, notifies>>

\* scan_for_mp3_books returns; save_processed_books
SaveState ==
  /\ pc = "scan" /\ ScanFinished
  /\ stateFile' = StateFileOf(processed)
  /\ saves' = saves + 1
  /\ pc' = "notify"
  /\ UNCHANGED <<tree, fs, processed, stack, job, todo, run, visits, attempts,
                 rmFailed, fsStart, stateFileStart, loads, notifies>>

\* scan_audiobookshelf_library: every outcome is only logged
Notify ==
  /\ pc = "notify"
  /\ \E outcome \in HttpOutcomes : notifies' = Append(notifies, outcome)
  /\ pc' = "done"
  /\ UNCHANGED <<tree, fs, stateFile, processed, stack, job, todo, run, visits,
                 attempts, rmFailed, fsStart, stateFileStart, loads, saves>>

\* the program is started again on the same tree and state file
Restart ==
  /\ pc = "done" /\ run = 1
  /\ run' = 2
  /\ pc' = "load"
  /\ processed' = {}
  /\ visits' = <<>>
  /\ fsStart' = fs
  /\ stateFileStart' = stateFile
  /\ loads' = 0
  /\ saves' = 0
  /\ notifies' = <<>>
  /\ UNCHANGED <<tree, fs, stateFile, stack, job, todo, attempts, rmFailed>>

Next ==
  \/ LoadState
  \/ VisitSkip
  \/ VisitCd
  \/ VisitFlat
  \/ ToolSucceeds
  \/ ToolFails
  \/ ToolCannotRun
  \/ RemoveOriginal
  \/ RemoveRaises
  \/ SaveState
  \/ Notify

Spec == Init /\ [][Next]_vars

NextTwice == Next \/ Restart

SpecTwice == Init /\ [][NextTwice]_vars

----------------------------------------------------------------------------
\* Vocabulary of the properties

Visited(d) == \E i \in 1..Len(visits) : visits[i].dir = d
Pending(d) == d \in Range(stack)
AttemptsFor(d) ==
  {i \in 1..Len(attempts) : attempts[i].dir = d /\ attempts[i].run = run}
\* attempt i is over: neither the tool nor the removal of its inputs is running
Over(i) == i < Len(attempts) \/ pc \notin {"merging", "removing"}
Mp3Names(listing) == {f \in Range(listing) : EndsWithMp3(f)}
LoadedKeys == IF stateFileStart.exists THEN stateFileStart.keys ELSE {}
ScanComplete == (pc = "scan" /\ stack = <<>>) \/ pc \in {"notify", "done"}
HasCdChild(d) == \E c \in Dirs : parent[c] = d /\ IsCdFolder(name[c])
Exists(p) == Has(fs[p.dir], p.file)

RECURSIVE Ancestors(_)
Ancestors(d) ==
  IF parent[d] = 0 THEN {} ELSE {parent[d]} \cup Ancestors(parent[d])

RECURSIVE PathTo(_)
PathTo(d) == IF parent[d] = 0 THEN <<d>> ELSE Append(PathTo(parent[d]), d)

\* x is yielded before y by a top-down walk that lists children in listing
\* order: x is above y, or x lies in an earlier branch
WalkedBefore(x, y) ==
  LET px == PathTo(x)
      py == PathTo(y)
  IN \E k \in 1..Len(py) :
       /\ \A j \in 1..(k-1) : j <= Len(px) /\ px[j] = py[j]
       /\ IF k > Len(px) THEN Len(px) = k - 1 ELSE px[k] < py[k]

Position(listing, f) == CHOOSE i \in 1..Len(listing) : listing[i] = f

\* the directories of the CD folders of d: the folders and all below them
CdTree(d) ==
  {x \in Dirs : \E c \in Dirs :
     /\ parent[c] = d /\ IsCdFolder(name[c])
     /\ (x = c \/ c \in Ancestors(x))}

----------------------------------------------------------------------------
\* C1: after a complete scan in which no removal failed, a directory without
\* CD folders that held two or more .mp3 files holds exactly one .mp3 file,
\* <dirname>-merged.mp3, and none of its original files, if and only if the
\* merge for that directory reported success.
C1_FlatBookMergedIffSuccess ==
  (ScanComplete /\ rmFailed = {}) =>
    \A d \in Dirs :
      (Cardinality(Mp3Names(fsStart[d])) >= 2 /\ ~HasCdChild(d)) =>
        (( /\ Mp3Names(fs[d]) = {OutputName(name[d])}
           /\ Mp3Names(fsStart[d]) \cap Mp3Names(fs[d]) \subseteq
                {OutputName(name[d])} \ Mp3Names(fsStart[d]) )
         <=> \E i \in AttemptsFor(d) : attempts[i].result = "true")

\* C2: after the run, the inputs of every merge whose tool exited non-zero
\* still exist and the book's base name is not a key of the mapping.
C2_FailedMergeLeavesBookUnmarked ==
  pc = "done" =>
    \A i \in 1..Len(attempts) :
      attempts[i].exit = "nonzero" =>
        /\ \A k \in 1..Len(attempts[i].inputs) : Exists(attempts[i].inputs[k])
        /\ attempts[i].title \notin processed
        /\ attempts[i].title \notin stateFile.keys

\* C3: the second of two runs in a row makes no merge attempt for a book the
\* first run marked processed and merges no input file of such a book.
C3_SecondRunIdempotent ==
  run = 2 =>
    \A j \in 1..Len(attempts) :
      attempts[j].run = 2 =>
        /\ attempts[j].title \notin stateFileStart.keys
        /\ \A i \in 1..Len(attempts) :
             (attempts[i].run = 1 /\ attempts[i].result = "true") =>
               Range(attempts[j].inputs) \cap Range(attempts[i].inputs) = {}

\* C4, as claimed: no child directory of a directory that has a CD folder is
\* ever visited.
C4_NoChildOfCdBookVisited ==
  \A d \in Dirs :
    HasCdChild(d) => \A c \in Dirs : parent[c] = d => ~Visited(c)

\* C4, amended: once the scan has visited a directory with a CD folder while
\* its base name was not a key of the mapping, no directory below it is
\* visited or waits to be visited.
C4_UnprocessedCdBookIsPruned ==
  \A i \in 1..Len(visits) :
    (~visits[i].wasKey /\ HasCdChild(visits[i].dir)) =>
      \A c \in Dirs :
        visits[i].dir \in Ancestors(c) => ~Visited(c) /\ ~Pending(c)

\* C4 witness: the scan is over, and the unvisited sibling of a CD folder
\* holds enough tracks to be a book of its own.
C4_Witness ==
  /\ pc = "done"
  /\ \E i \in 1..Len(visits) :
       /\ ~visits[i].wasKey
       /\ HasCdChild(visits[i].dir)
       /\ attempts # <<>>
       /\ \E c \in Dirs :
            /\ parent[c] = visits[i].dir
            /\ ~IsCdFolder(name[c])
            /\ Cardinality(Mp3Names(fs[c])) >= 2

SmallDir(d) == Cardinality(Mp3Names(fsStart[d])) <= 1 /\ ~HasCdChild(d)

\* C5, as claimed: every directory with at most one .mp3 file and no CD
\* folder sees no merge attempt, keeps its files and its name is not added
\* to the mapping.
C5_SmallDirectoryUntouched ==
  \A d \in Dirs :
    SmallDir(d) =>
      /\ AttemptsFor(d) = {}
      /\ fs[d] = fsStart[d]
      /\ name[d] \in processed => name[d] \in LoadedKeys

\* C5, amended: every such directory that the scan visits sees no merge
\* attempt and keeps its files, and its name is added to the mapping only
\* by the successful merge of another directory with the same base name.
C5_VisitedSmallDirectoryUntouched ==
  \A v \in 1..Len(visits) :
    LET d == visits[v].dir IN
      SmallDir(d) =>
        /\ AttemptsFor(d) = {}
        /\ fs[d] = fsStart[d]
        /\ (name[d] \in processed /\ name[d] \notin LoadedKeys) =>
             \E i \in 1..Len(attempts) :
               /\ attempts[i].dir # d
               /\ attempts[i].title = name[d]
               /\ attempts[i].result = "true"

\* C5 witness: the scan is over; a visited directory holds its single track,
\* and its name became a key through a namesake.
C5_Witness ==
  /\ pc = "done"
  /\ \E v \in 1..Len(visits) :
       LET d == visits[v].dir IN
         /\ SmallDir(d)
         /\ Cardinality(Mp3Names(fs[d])) = 1
         /\ name[d] \in processed
         /\ name[d] \notin LoadedKeys

\* attempt i merges the CD folders of a directory the scan visited while the
\* directory's name was no key
CdAttempt(i) == attempts[i].run = run /\ HasCdChild(attempts[i].dir)

\* the .mp3 files found in the CD folders of d when the run started
CdTreeFiles(d) ==
  {Path(x, f) : <<x, f>> \in
     {xf \in CdTree(d) \X UNION {Mp3Names(fsStart[y]) : y \in Dirs} :
        xf[2] \in Mp3Names(fsStart[xf[1]])}}

\* the inputs are the files of the CD folders, each once, in walk order
CdInputsAsDiscovered(i) ==
  LET in == attempts[i].inputs IN
    /\ Range(in) = CdTreeFiles(attempts[i].dir)
    /\ Cardinality(Range(in)) = Len(in)
    /\ \A a, b \in 1..Len(in) :
         a < b =>
           IF in[a].dir = in[b].dir
             THEN Position(fsStart[in[a].dir], in[a].file)
                    < Position(fsStart[in[a].dir], in[b].file)
             ELSE WalkedBefore(in[a].dir, in[b].dir)

\* the .mp3 files of the book directory itself and of everything below its
\* other subfolders are all still there
OutsideCdFoldersKept(d) ==
  \A x \in Dirs :
    (x = d \/ (d \in Ancestors(x) /\ x \notin CdTree(d))) =>
      Mp3Names(fsStart[x]) \subseteq Mp3Names(fs[x])

\* C6, as claimed: the inputs of the merge of a directory with CD folders are
\* the .mp3 files of those folders in discovery order, the files outside
\* them are kept, and on success the output exists, all inputs are deleted
\* and the book is marked processed.
C6_CdBookMergedAllInputsDeleted ==
  \A i \in 1..Len(attempts) :
    CdAttempt(i) =>
      /\ CdInputsAsDiscovered(i)
      /\ OutsideCdFoldersKept(attempts[i].dir)
      /\ (Over(i) /\ attempts[i].result = "true") =>
           /\ Has(fs[attempts[i].dir], OutputName(name[attempts[i].dir]))
           /\ \A p \in Range(attempts[i].inputs) : ~Exists(p)
           /\ name[attempts[i].dir] \in processed

\* C6, amended: as claimed, except that on success an input is deleted
\* unless its removal failed; the book is marked processed all the same.
C6_CdBookMergedInputsDeletedUnlessRemovalFailed ==
  \A i \in 1..Len(attempts) :
    CdAttempt(i) =>
      /\ CdInputsAsDiscovered(i)
      /\ OutsideCdFoldersKept(attempts[i].dir)
      /\ (Over(i) /\ attempts[i].result = "true") =>
           /\ Has(fs[attempts[i].dir], OutputName(name[attempts[i].dir]))
           /\ \A p \in Range(attempts[i].inputs) : Exists(p) <=> p \in rmFailed
           /\ name[attempts[i].dir] \in processed

\* C6 witness: a successful merge of CD folders is over; it took tracks from
\* two directories, one removal failed, and the book directory holds a track
\* of its own.
C6_Witness ==
  \E i \in 1..Len(attempts) :
    /\ CdAttempt(i) /\ Over(i) /\ attempts[i].result = "true"
    /\ \E p, q \in Range(attempts[i].inputs) :
         /\ p.dir # q.dir
         /\ p \in rmFailed /\ q \notin rmFailed
    /\ Mp3Names(fsStart[attempts[i].dir]) # {}

\* C7: the state is loaded once before the scan, the state file is the same
\* at every point of the scan and is written once, after the scan, with the
\* mapping as the scan left it; the notifier is invoked once, after the
\* save; a run that ends with an exception saves nothing and notifies nobody.
C7_StageOrdering ==
  /\ loads <= 1 /\ saves <= 1 /\ Len(notifies) <= 1
  /\ pc = "load" => loads = 0 /\ saves = 0 /\ notifies = <<>>
  /\ pc \in {"scan", "merging", "removing", "aborted"} =>
       /\ loads = 1 /\ saves = 0 /\ notifies = <<>>
       /\ stateFile = stateFileStart
  /\ pc = "notify" =>
       /\ loads = 1 /\ saves = 1 /\ notifies = <<>>
       /\ stack = <<>>
       /\ stateFile = StateFileOf(processed)
  /\ pc = "done" =>
       /\ loads = 1 /\ saves = 1 /\ Len(notifies) = 1
       /\ stack = <<>>
       /\ stateFile = StateFileOf(processed)

\* C7 witness: a finished run in which one book was merged and another
\* failed, and the notifier failed as well.
C7_Witness ==
  /\ pc = "done"
  /\ notifies = <<"exception">>
  /\ \E i, j \in 1..Len(attempts) :
       attempts[i].result = "true" /\ attempts[j].result = "false"

\* a directory the walk has to yield: the base path, and every child of a
\* visited directory that was not pruned
Due(d) ==
  \/ parent[d] = 0
  \/ \E v \in 1..Len(visits) :
       /\ visits[v].dir = parent[d]
       /\ visits[v].wasKey \/ ~HasCdChild(parent[d])

\* C8: whatever merges, removals and the notifier do, the run never ends
\* with an exception, every directory due after a failed book is visited,
\* and each of them that qualifies gets its merge attempt.
C8_BestEffortCompletion ==
  /\ pc # "aborted"
  /\ pc # "load" => \A d \in Dirs : Due(d) => Visited(d) \/ Pending(d)
  /\ ScanComplete => \A d \in Dirs : Due(d) => Visited(d)
  /\ \A v \in 1..Len(visits) :
       LET d == visits[v].dir IN
         ( /\ ~visits[v].wasKey
           /\ \/ ~HasCdChild(d) /\ Cardinality(Mp3Names(fsStart[d])) >= 2
              \/ HasCdChild(d) /\ CdTreeFiles(d) # {} ) =>
           AttemptsFor(d) # {}
  /\ pc = "done" => saves = 1 /\ Len(notifies) = 1

\* C9: a directory visited while its base name is a key of the mapping sees
\* no merge attempt and keeps its files; the walk goes on into all of its
\* subdirectories, and a subdirectory with a CD name that is then visited
\* as an unprocessed directory with two or more tracks gets a merge attempt
\* of its own.
C9_SkipRule ==
  \A v \in 1..Len(visits) :
    LET d == visits[v].dir IN
      visits[v].wasKey =>
        /\ AttemptsFor(d) = {}
        /\ fs[d] = fsStart[d]
        /\ \A c \in Dirs :
             parent[c] = d =>
               /\ Visited(c) \/ Pending(c)
               /\ ScanComplete => Visited(c)
               /\ \A w \in 1..Len(visits) :
                    ( /\ visits[w].dir = c /\ ~visits[w].wasKey
                      /\ ~HasCdChild(c)
                      /\ Cardinality(Mp3Names(fsStart[c])) >= 2 ) =>
                      AttemptsFor(c) # {}

\* C9 witness: the scan is over; it skipped a directory whose name was added
\* earlier in the run, and merged the tracks of that directory's CD folder
\* as a book of its own.
C9_Witness ==
  /\ pc = "done"
  /\ \E v \in 1..Len(visits) :
       /\ visits[v].wasKey
       /\ name[visits[v].dir] \notin LoadedKeys
       /\ Mp3Names(fs[visits[v].dir]) # {}
       /\ \E c \in Dirs :
            /\ parent[c] = visits[v].dir
            /\ IsCdFolder(name[c])
            /\ \E i \in AttemptsFor(c) : attempts[i].result = "true"

ResultIsExitStatus ==
  \A i \in 1..Len(attempts) :
    /\ attempts[i].result = "true" <=> attempts[i].exit = "zero"
    /\ attempts[i].result = "false" <=> attempts[i].exit = "nonzero"

\* C10, as claimed: the manifest exists while the tool runs, no directory
\* that the scan visited holds a manifest at the end of the run, and the
\* result is true exactly when the exit status is zero.
C10_NoManifestAtEndOfRun ==
  /\ pc = "merging" => Has(fs[job.dir], ManifestName)
  /\ pc = "done" => \A d \in Dirs : Visited(d) => ~Has(fs[d], ManifestName)
  /\ ResultIsExitStatus

\* C10, amended: the manifest exists while the tool runs; when no attempt is
\* in progress in a directory, the directory holds a manifest only if it held
\* one before the run and no merge was attempted in it; the result is true
\* exactly when the exit status is zero.
C10_NoManifestLeftByAttempt ==
  /\ pc = "merging" => Has(fs[job.dir], ManifestName)
  /\ \A d \in Dirs :
       (Has(fs[d], ManifestName) /\ ~(pc = "merging" /\ job.dir = d)) =>
         Has(fsStart[d], ManifestName) /\ AttemptsFor(d) = {}
  /\ ResultIsExitStatus

\* C10 witness: the run is over after a failed and a successful attempt, one
\* of them in a directory that held a stale manifest.
C10_Witness ==
  /\ pc = "done"
  /\ \E i, j \in 1..Len(attempts) :
       /\ attempts[i].exit = "nonzero" /\ attempts[j].exit = "zero"
       /\ Has(fsStart[attempts[i].dir], ManifestName)
       /\ ~Has(fs[attempts[i].dir], ManifestName)

============================================================================
